---- MODULE Spec2Model ----
(***************************************************************************)
(* A model of the RAG note taker: the text chunker, the RAG service        *)
(* (index_document, delete_document_embeddings, answer_question) over the  *)
(* vector store, the lazy construction of the service singleton, the chat  *)
(* view with its history window, and the document upload and delete views. *)
(*                                                                         *)
(* A Python str is a sequence of one-character strings.  Each group of     *)
(* variables has a specification of its own; a specification leaves the    *)
(* other groups at their initial values.                                   *)
(***************************************************************************)
EXTENDS Integers, Sequences, FiniteSets, TLC

VARIABLES
    \* TextChunker.chunk: its arguments, its locals and its position
    text, chunk_size, chunk_overlap, start, chunks, iterations, cpc,
    \* the vector store's entries, the last call of the RAG service with
    \* what it gave back, and whether that call has been taken by its caller
    store, last, rpc,
    \* RagService's class attributes _instance and _document_store, and the
    \* threads constructing RagService(): where each is, the instance it
    \* holds, the store it sees, and how many instances and stores were made
    instance, document_store, tpc, self, seen, instances, initializations,
    \* the Document and ChatMessage tables, the clock (in hours), the last
    \* request to ChatAPIView with its response, and whether the response
    \* has been taken
    documents, messages, now, chat, kpc

chunkVars == <<text, chunk_size, chunk_overlap, start, chunks, iterations, cpc>>
ragVars == <<store, last, rpc>>
newVars == <<instance, document_store, tpc, self, seen, instances, initializations>>
chatVars == <<documents, messages, now, chat, kpc>>
vars == <<chunkVars, ragVars, newVars, chatVars>>

----------------------------------------------------------------------------
(* Bounds of the chunker's inputs. *)

\* longest text given to the chunker
MaxLen == 8
\* largest chunk_size given to the chunker
MaxChunk == 7
\* the loop is followed for at most this many iterations: more than any
\* loop that ends takes
MaxIter == MaxLen + 2

\* the characters texts are made of: a letter, the blank, and the full stop
Alphabet == {"a", " ", "."}
\* what str.strip() removes
Whitespace == {" ", "\n", "\t", "\r"}

Texts == UNION {[1..n -> Alphabet] : n \in 0..MaxLen}

----------------------------------------------------------------------------
(* Python's str operations. *)

Min(a, b) == IF a < b THEN a ELSE b
Max(a, b) == IF a > b THEN a ELSE b

\* a slice bound as Python normalises it: negative counts from the end,
\* and the result is clamped to 0..len
SliceIndex(i, len) == IF i < 0 THEN Max(i + len, 0) ELSE Min(i, len)

\* s[i:j]
Slice(s, i, j) ==
    LET lo == SliceIndex(i, Len(s))
        hi == SliceIndex(j, Len(s))
    IN  IF lo >= hi THEN <<>> ELSE SubSeq(s, lo + 1, hi)

\* s.rfind(sub): the highest 0-based index where sub occurs in s, or -1
rfind(s, sub) ==
    LET hits == {i \in 0..(Len(s) - Len(sub)) : SubSeq(s, i + 1, i + Len(sub)) = sub}
    IN  IF hits = {} THEN -1 ELSE CHOOSE i \in hits : \A j \in hits : j <= i

\* s.strip()
strip(s) ==
    IF \A i \in 1..Len(s) : s[i] \in Whitespace THEN <<>>
    ELSE SubSeq(s,
            CHOOSE i \in 1..Len(s) :
                s[i] \notin Whitespace /\ \A j \in 1..(i - 1) : s[j] \in Whitespace,
            CHOOSE i \in 1..Len(s) :
                s[i] \notin Whitespace /\ \A j \in (i + 1)..Len(s) : s[j] \in Whitespace)

----------------------------------------------------------------------------
(* TextChunker.chunk *)

\* (mutant) the marks without their trailing whitespace
PunctsBare == << <<".">>, <<"!">>, <<"?">> >>

\* for punct in ['. ', '.\n', '! ', '? ']
Puncts == << <<".", " ">>, <<".", "\n">>, <<"!", " ">>, <<"?", " ">> >>

\* The for loop over the punctuation marks, from mark k on: the end of the
\* window that starts at st, moved back to the first mark of the list whose
\* last occurrence in the window lies beyond half the chunk size.
RECURSIVE SentenceEnd(_, _, _, _, _)
SentenceEnd(t, st, end, size, k) ==
    IF k > Len(Puncts) THEN end
    ELSE LET punct == Puncts[k]
             last_punct == rfind(Slice(t, st, end), punct)
         IN  IF last_punct > size \div 2
             THEN st + last_punct + Len(punct)
             ELSE SentenceEnd(t, st, end, size, k + 1)

\* One pass of the while loop's body up to the cut: the end of the chunk
\* that starts at st.
ChunkEnd(t, st, size) ==
    LET end == st + size
    IN  IF end < Len(t) THEN SentenceEnd(t, st, end, size, 1) ELSE end

\* chunks after the body's append: the stripped window, unless it is empty
Appended(cs, t, st, end) ==
    LET chunk == strip(Slice(t, st, end))
    IN  IF chunk # <<>> THEN Append(cs, chunk) ELSE cs

\* start = end - self.chunk_overlap
NextStart(end, overlap) == end - overlap

\* The while loop run to its end from (st, cs), followed for at most fuel
\* iterations.
RECURSIVE ChunkLoop(_, _, _, _, _, _)
ChunkLoop(t, size, overlap, st, cs, fuel) ==
    IF ~(st < Len(t)) \/ fuel = 0 THEN cs
    ELSE LET end == ChunkEnd(t, st, size)
         IN  ChunkLoop(t, size, overlap, NextStart(end, overlap),
                       Appended(cs, t, st, end), fuel - 1)

\* TextChunker(size, overlap).chunk(t)
chunk(t, size, overlap) ==
    IF t = <<>> THEN <<>> ELSE ChunkLoop(t, size, overlap, 0, <<>>, MaxIter)

----------------------------------------------------------------------------
(* The documents given to the RAG service. *)

\* users 1..MaxUser, documents 1..MaxDoc
MaxUser == 2
MaxDoc == 3

Users == 1..MaxUser
DocIds == 1..MaxDoc

\* TextChunker's default chunk_size and chunk_overlap
DefaultChunkSize == 500
DefaultChunkOverlap == 50
\* top_k of the retrieval
TopK == 5

Repeat(c, n) == [i \in 1..n |-> c]

\* two sentences, longer together than one chunk
LongText == Repeat("a", 300) \o <<".", " ">> \o Repeat("b", 300)
ShortText == <<"a", "b", ".", " ", "c">>
BlankText == <<" ", "\n", " ">>

\* document_model.name, document_model.file_extension and the text in the
\* file of document d: a long text file, a short PDF, a blank DOCX and a
\* spreadsheet, in turn
DocKind(d) == d % 4
DocName(d) ==
    CASE DocKind(d) = 1 -> "long.txt"
      [] DocKind(d) = 2 -> "short.pdf"
      [] DocKind(d) = 3 -> "blank.docx"
      [] OTHER -> "sheet.xlsx"
DocExtension(d) ==
    CASE DocKind(d) = 1 -> "txt"
      [] DocKind(d) = 2 -> "pdf"
      [] DocKind(d) = 3 -> "docx"
      [] OTHER -> "xlsx"
FileText(d) ==
    CASE DocKind(d) = 1 -> LongText
      [] DocKind(d) = 2 -> ShortText
      [] DocKind(d) = 3 -> BlankText
      [] OTHER -> <<>>

\* what a call gives back: a value returned or an exception raised
Return(v) == [kind |-> "return", value |-> v]
Raise(e) == [kind |-> "raise", value |-> e]

\* DocumentParser.parse: the parser is looked up by extension; an unknown
\* extension raises ValueError, and a parser may fail on the file
parse(d, extension, parserFails) ==
    IF extension \notin {"pdf", "docx", "txt"} THEN Raise("ValueError")
    ELSE IF parserFails THEN Raise("ParseError")
    ELSE Return(FileText(d))

----------------------------------------------------------------------------
(* The vector store.  An entry is a chunk of a document as index_document    *)
(* wrote it: its metadata; its content is the chunk at chunk_index of the  *)
(* document's text, and its id is derived from content and metadata, so    *)
(* that an entry is identified by its metadata.                            *)

\* the chunks of document d's text, by TextChunker() with its defaults
DocChunks[d \in DocIds] == chunk(FileText(d), DefaultChunkSize, DefaultChunkOverlap)

\* HaystackDocument(content=chunk, meta={...}) for chunk i (0-based)
HaystackDocument(d, user_id, i) ==
    [user_id |-> user_id, document_id |-> d, document_name |-> DocName(d),
     chunk_index |-> i]

content(e) == DocChunks[e.document_id][e.chunk_index + 1]

\* the call record before any call
NoCall ==
    [op |-> "none", user_id |-> 0, document_id |-> 0, selected |-> {},
     fault |-> "none", api_key |-> "", before |-> {}, retrieved |-> {},
     history |-> <<>>, kind |-> "return", value |-> <<>>, llm_called |-> FALSE,
     stage |-> "none", chunks |-> 0]

RagIdle ==
    /\ store = {}
    /\ last = NoCall
    /\ rpc = "idle"

\* the chunker before any call
ChunkIdle ==
    /\ text = <<>>
    /\ chunk_size = DefaultChunkSize
    /\ chunk_overlap = DefaultChunkOverlap
    /\ start = 0
    /\ chunks = <<>>
    /\ iterations = 0
    /\ cpc = "entry"

----------------------------------------------------------------------------
(* The Document and ChatMessage tables. *)

\* the ChatMessage table holds at most this many rows
MaxMsgs == 12
\* the clock stops here (hours)
MaxClock == 26

\* the hours of the history window and the messages of it given to the model
HistoryHours == 24
HistoryMaxMessages == 10

\* the Document rows: document d belongs to the users in turn, every third
\* document is soft-deleted, and all were indexed
DocumentTable ==
    {[id |-> d, user |-> ((d - 1) % MaxUser) + 1, is_deleted |-> (d % 3 = 0),
      is_indexed |-> TRUE] : d \in DocIds}

\* the response before any request
NoRequest ==
    [status |-> 0, user |-> 0, body |-> "none", question |-> <<>>,
     requested |-> {}, document_ids |-> {},
     history |-> <<>>, rag_called |-> FALSE, answer |-> <<>>]

ChatIdle ==
    /\ documents = DocumentTable
    /\ messages = <<>>
    /\ now = 0
    /\ chat = NoRequest
    /\ kpc = "idle"

----------------------------------------------------------------------------
(* RagService(): __new__ and __init__ over the class attributes          *)
(* _instance and _document_store.  An object is the number of its          *)
(* creation; 0 is None.  A step is what a thread does between two points   *)
(* where another thread may run.                                           *)

\* threads that construct RagService()
MaxThread == 2
Threads == 1..MaxThread

\* the class as defined, no thread constructing
Unconstructed ==
    /\ instance = 0
    /\ document_store = 0
    /\ tpc = [t \in Threads |-> "idle"]
    /\ self = [t \in Threads |-> 0]
    /\ seen = [t \in Threads |-> 0]
    /\ instances = 0
    /\ initializations = 0

\* the process after the module was imported: rag_service = RagService()
\* made the instance and the store
Constructed ==
    /\ instance = 1
    /\ document_store = 1
    /\ tpc = [t \in Threads |-> "idle"]
    /\ self = [t \in Threads |-> 0]
    /\ seen = [t \in Threads |-> 0]
    /\ instances = 1
    /\ initializations = 1

\* a thread calls RagService()
Construct(t) ==
    /\ tpc[t] = "idle"
    /\ tpc' = [tpc EXCEPT ![t] = "new"]
    /\ self' = [self EXCEPT ![t] = 0]
    /\ seen' = [seen EXCEPT ![t] = 0]
    /\ UNCHANGED <<instance, document_store, instances, initializations>>
    /\ UNCHANGED <<chunkVars, ragVars, chatVars>>

\* __new__: if cls._instance is None
NewTest(t) ==
    /\ tpc[t] = "new"
    /\ tpc' = [tpc EXCEPT ![t] = IF instance = 0 THEN "new_create" ELSE "new_return"]
    /\ UNCHANGED <<instance, document_store, self, seen, instances, initializations>>
    /\ UNCHANGED <<chunkVars, ragVars, chatVars>>

\* __new__: cls._instance = super().__new__(cls)
NewCreate(t) ==
    /\ tpc[t] = "new_create"
    /\ instances' = instances + 1
    /\ instance' = instances + 1
    /\ tpc' = [tpc EXCEPT ![t] = "new_return"]
    /\ UNCHANGED <<document_store, self, seen, initializations>>
    /\ UNCHANGED <<chunkVars, ragVars, chatVars>>

\* __new__: return cls._instance
NewReturn(t) ==
    /\ tpc[t] = "new_return"
    /\ self' = [self EXCEPT ![t] = instance]
    /\ tpc' = [tpc EXCEPT ![t] = "init"]
    /\ UNCHANGED <<instance, document_store, seen, instances, initializations>>
    /\ UNCHANGED <<chunkVars, ragVars, chatVars>>

\* __init__: if RagService._document_store is None
InitTest(t) ==
    /\ tpc[t] = "init"
    /\ tpc' = [tpc EXCEPT ![t] = IF document_store = 0 THEN "init_store" ELSE "constructed"]
    /\ UNCHANGED <<instance, document_store, self, seen, instances, initializations>>
    /\ UNCHANGED <<chunkVars, ragVars, chatVars>>

\* _initialize_document_store: RagService._document_store = ChromaDocumentStore(...)
InitializeDocumentStore(t) ==
    /\ tpc[t] = "init_store"
    /\ initializations' = initializations + 1
    /\ document_store' = initializations + 1
    /\ tpc' = [tpc EXCEPT ![t] = "constructed"]
    /\ UNCHANGED <<instance, self, seen, instances>>
    /\ UNCHANGED <<chunkVars, ragVars, chatVars>>

\* the thread has its RagService and reads its document_store property
ReadDocumentStore(t) ==
    /\ tpc[t] = "constructed"
    /\ seen' = [seen EXCEPT ![t] = document_store]
    /\ tpc' = [tpc EXCEPT ![t] = "idle"]
    /\ UNCHANGED <<instance, document_store, self, instances, initializations>>
    /\ UNCHANGED <<chunkVars, ragVars, chatVars>>

NewNext ==
    \/ \E t \in Threads : Construct(t)
    \/ \E t \in Threads : NewTest(t)
    \/ \E t \in Threads : NewCreate(t)
    \/ \E t \in Threads : NewReturn(t)
    \/ \E t \in Threads : InitTest(t)
    \/ \E t \in Threads : InitializeDocumentStore(t)
    \/ \E t \in Threads : ReadDocumentStore(t)

NewInit == ChunkIdle /\ RagIdle /\ Unconstructed /\ ChatIdle

\* threads constructing RagService() from the class as defined
NewSpec == NewInit /\ [][NewNext]_vars

----------------------------------------------------------------------------
(* RagService.index_document *)

\* (mutant) only the empty text is refused
NoContentOnlyEmpty(t) == t = <<>>

\* not text.strip()
NoContent(t) == strip(t) = <<>>

\* The body of index_document's try block on store st: what it gives back,
\* the store it leaves, the stage at which it ended and the number of
\* chunks it made.  fault names the stage that fails ("none" for no
\* failure); a failing write leaves the first `written` documents of the
\* batch in the store.
IndexTry(st, d, user_id, fault, written) ==
    LET res(out, s, stage, n) == [out |-> out, store |-> s, stage |-> stage, chunks |-> n] IN
    IF fault = "file" THEN res(Raise("ValueError"), st, "file", 0)
    ELSE
    LET parsed == parse(d, DocExtension(d), fault = "parse") IN
    IF parsed.kind = "raise" THEN res(parsed, st, "parse", 0)
    ELSE IF NoContent(parsed.value) THEN res(Return(FALSE), st, "empty", 0)
    ELSE
    LET cs == chunk(parsed.value, DefaultChunkSize, DefaultChunkOverlap)
        haystack_docs == [i \in 1..Len(cs) |-> HaystackDocument(d, user_id, i - 1)]
    IN
    IF fault = "embed" THEN res(Raise("EmbedderError"), st, "embed", Len(cs))
    ELSE IF fault = "write"
    THEN res(Raise("StoreError"),
             st \cup {haystack_docs[i] : i \in 1..Min(written, Len(cs))},
             "write", Len(cs))
    ELSE res(Return(TRUE), st \cup {haystack_docs[i] : i \in 1..Len(cs)},
             "done", Len(cs))

\* (mutant) only the parser's exceptions are caught
index_document_CatchesParseOnly(st, d, user_id, fault, written) ==
    LET r == IndexTry(st, d, user_id, fault, written)
    IN  IF r.out.kind = "raise" /\ r.out.value \in {"ValueError", "ParseError"}
        THEN [r EXCEPT !.out = Return(FALSE)]
        ELSE r

\* index_document: any exception of the body becomes False
index_document(st, d, user_id, fault, written) ==
    LET r == IndexTry(st, d, user_id, fault, written)
    IN  IF r.out.kind = "raise" THEN [r EXCEPT !.out = Return(FALSE)] ELSE r

IndexFaults == {"none", "file", "parse", "embed", "write"}

IndexDocument(d, user_id, fault, written) ==
    /\ rpc = "idle"
    /\ LET r == index_document(store, d, user_id, fault, written)
       IN  /\ store' = r.store
           /\ last' = [NoCall EXCEPT !.op = "index", !.user_id = user_id,
                          !.document_id = d, !.fault = fault, !.before = store,
                          !.kind = r.out.kind, !.value = r.out.value,
                          !.stage = r.stage, !.chunks = r.chunks]
    /\ rpc' = "returned"
    /\ UNCHANGED <<chunkVars, newVars, chatVars>>

----------------------------------------------------------------------------
(* RagService.delete_document_embeddings *)

\* (mutant) the filter without the user
DeleteFilterAnyUser(e, document_id, user_id) ==
    e.document_id = document_id

\* filters = {"meta.document_id": document_id, "meta.user_id": user_id}
DeleteFilter(e, document_id, user_id) ==
    e.document_id = document_id /\ e.user_id = user_id

\* The try block on store st: filter_documents finds the entries, and if
\* there are any, delete_documents deletes them by id.  fault names the
\* call that fails; a failing delete_documents has deleted the entries
\* `gone` among those asked for.
DeleteTry(st, document_id, user_id, fault, gone) ==
    IF fault = "filter" THEN [out |-> Raise("StoreError"), store |-> st]
    ELSE
    LET docs == {e \in st : DeleteFilter(e, document_id, user_id)} IN
    IF docs = {} THEN [out |-> Return("None"), store |-> st]
    ELSE IF fault = "delete"
    THEN [out |-> Raise("StoreError"), store |-> st \ (gone \cap docs)]
    ELSE [out |-> Return("None"), store |-> st \ docs]

\* delete_document_embeddings: an exception of the body is logged
delete_document_embeddings(st, document_id, user_id, fault, gone) ==
    LET r == DeleteTry(st, document_id, user_id, fault, gone)
    IN  IF r.out.kind = "raise" THEN [out |-> Return("None"), store |-> r.store] ELSE r

DeleteFaults == {"none", "filter", "delete"}

DeleteDocumentEmbeddings(d, user_id, fault, gone) ==
    /\ rpc = "idle"
    /\ LET r == delete_document_embeddings(store, d, user_id, fault, gone)
       IN  /\ store' = r.store
           /\ last' = [NoCall EXCEPT !.op = "delete", !.user_id = user_id,
                          !.document_id = d, !.fault = fault, !.before = store,
                          !.kind = r.out.kind, !.value = r.out.value]
    /\ rpc' = "returned"
    /\ UNCHANGED <<chunkVars, newVars, chatVars>>

----------------------------------------------------------------------------
(* RagService.answer_question *)

MsgNoInfo == "I couldn't find any relevant information in the selected documents."
MsgNoKey == "Error: Google API key is not configured. Please set GOOGLE_API_KEY in your .env file."
MsgNoResponse == "I couldn't generate a response. Please try again."
MsgErrorPrefix == "An error occurred while processing your question: "

\* settings.GOOGLE_API_KEY: unset (None), empty, the placeholder, or a key
PyNone == "<None>"
PlaceholderKey == "your-google-api-key-here"
ApiKeys == {PyNone, "", PlaceholderKey, "AIza-key"}

\* (mutant) the check without the placeholder
KeyNotConfiguredOnlyEmpty(api_key) ==
    api_key \in {PyNone, ""}

\* not api_key or api_key == 'your-google-api-key-here'
KeyNotConfigured(api_key) ==
    api_key \in {PyNone, ""} \/ api_key = PlaceholderKey

\* what generate_content gives: no response, a response without text, or
\* a response with text
Responses == {PyNone, "", "The answer."}

\* (mutant) the filter without the user
AnswerFilterAnyUser(e, user_id, selected) ==
    e.document_id \in selected

\* the filter of the retrieval: meta.user_id == user_id AND
\* meta.document_id in selected_document_ids
AnswerFilter(e, user_id, selected) ==
    e.user_id = user_id /\ e.document_id \in selected

\* What the retriever may give for the filter: top_k of the entries that
\* match (which of them depends on the ranking by similarity).
Retrievals(st, user_id, selected, top_k) ==
    LET matching == {e \in st : AnswerFilter(e, user_id, selected)}
    IN  {r \in SUBSET matching : Cardinality(r) = Min(top_k, Cardinality(matching))}

\* chat_history[-10:]
HistoryTailLen == 10
HistoryTail(chat_history) ==
    SubSeq(chat_history, Max(1, Len(chat_history) - HistoryTailLen + 1), Len(chat_history))

\* (mutant) the key is checked before the retrieved documents are
AnswerTryKeyFirst(docs, chat_history, env) ==
    LET out(r, called, hist) == [out |-> r, llm_called |-> called, history |-> hist]
        history == HistoryTail(chat_history)
    IN
    IF env.fault = "embed" THEN out(Raise("EmbedderError"), FALSE, <<>>)
    ELSE IF env.fault = "retrieve" THEN out(Raise("StoreError"), FALSE, <<>>)
    ELSE IF env.fault = "settings" THEN out(Raise("AttributeError"), FALSE, history)
    ELSE IF KeyNotConfiguredOnlyEmpty(env.api_key) \/ env.api_key = PlaceholderKey
         THEN out(Return(<<MsgNoKey>>), FALSE, history)
    ELSE IF docs = {} THEN out(Return(<<MsgNoInfo>>), FALSE, <<>>)
    ELSE IF env.fault = "client" THEN out(Raise("ClientError"), FALSE, history)
    ELSE IF env.fault = "generate" THEN out(Raise("APIError"), TRUE, history)
    ELSE IF env.response # PyNone /\ env.response # ""
         THEN out(Return(<<env.response>>), TRUE, history)
         ELSE out(Return(<<MsgNoResponse>>), TRUE, history)

\* The body of answer_question's try block, with docs what the retriever
\* gave: what it gives back, whether generate_content was called, and the
\* history put in the prompt.  env.fault names the stage that fails,
\* env.api_key is the configured key, env.response the model's response.
AnswerTry(docs, chat_history, env) ==
    LET out(r, called, hist) == [out |-> r, llm_called |-> called, history |-> hist]
        history == HistoryTail(chat_history)
    IN
    IF env.fault = "embed" THEN out(Raise("EmbedderError"), FALSE, <<>>)
    ELSE IF env.fault = "retrieve" THEN out(Raise("StoreError"), FALSE, <<>>)
    ELSE IF docs = {} THEN out(Return(<<MsgNoInfo>>), FALSE, <<>>)
    ELSE IF env.fault = "settings" THEN out(Raise("AttributeError"), FALSE, history)
    ELSE IF KeyNotConfigured(env.api_key) THEN out(Return(<<MsgNoKey>>), FALSE, history)
    ELSE IF env.fault = "client" THEN out(Raise("ClientError"), FALSE, history)
    ELSE IF env.fault = "generate" THEN out(Raise("APIError"), TRUE, history)
    ELSE IF env.response # PyNone /\ env.response # ""
         THEN out(Return(<<env.response>>), TRUE, history)
         ELSE out(Return(<<MsgNoResponse>>), TRUE, history)

\* (mutant) the try block begins after the retrieval
answer_question_LateTry(docs, chat_history, env) ==
    LET r == AnswerTry(docs, chat_history, env)
    IN  IF r.out.kind = "raise" /\ env.fault \notin {"embed", "retrieve"}
        THEN [r EXCEPT !.out = Return(<<MsgErrorPrefix, r.out.value>>)]
        ELSE r

\* answer_question: an exception of the body becomes the error message
answer_question(docs, chat_history, env) ==
    LET r == AnswerTry(docs, chat_history, env)
    IN  IF r.out.kind = "raise"
        THEN [r EXCEPT !.out = Return(<<MsgErrorPrefix, r.out.value>>)]
        ELSE r

AnswerFaults == {"none", "embed", "retrieve", "settings", "client", "generate"}

\* the failures and configurations a call of answer_question may meet
AnswerEnvs ==
    {[fault |-> f, api_key |-> k, response |-> "The answer."] :
        f \in AnswerFaults, k \in ApiKeys}
    \cup {[fault |-> "none", api_key |-> "AIza-key", response |-> r] : r \in Responses}

\* the chat histories given to answer_question in this specification
Histories == {<<>>, <<[role |-> "user", content |-> "q"]>>}

AnswerQuestion(user_id, selected, chat_history, env) ==
    /\ rpc = "idle"
    /\ \E docs \in Retrievals(store, user_id, selected, TopK) :
        LET r == answer_question(docs, chat_history, env)
        IN  last' = [NoCall EXCEPT !.op = "answer", !.user_id = user_id,
                        !.selected = selected, !.fault = env.fault,
                        !.api_key = env.api_key, !.before = store,
                        !.retrieved = IF env.fault \in {"embed", "retrieve"}
                                      THEN {} ELSE docs,
                        !.history = chat_history,
                        !.kind = r.out.kind, !.value = r.out.value,
                        !.llm_called = r.llm_called]
    /\ rpc' = "returned"
    /\ UNCHANGED <<store, chunkVars, newVars, chatVars>>

----------------------------------------------------------------------------
(* The RAG service under any sequence of calls. *)

\* the caller takes what the call gave back
TakeResult ==
    /\ rpc = "returned"
    /\ rpc' = "idle"
    /\ last' = NoCall
    /\ UNCHANGED <<store, chunkVars, newVars, chatVars>>

Init == ChunkIdle /\ RagIdle /\ Constructed /\ ChatIdle

Next ==
    \/ \E d \in DocIds, u \in Users, f \in IndexFaults, n \in 0..1 :
            IndexDocument(d, u, f, n)
    \/ \E d \in DocIds, u \in Users, f \in DeleteFaults :
        \E gone \in SUBSET {e \in store : e.document_id = d} :
            DeleteDocumentEmbeddings(d, u, f, gone)
    \/ \E u \in Users, sel \in SUBSET DocIds, h \in Histories, env \in AnswerEnvs :
            AnswerQuestion(u, sel, h, env)
    \/ TakeResult

Spec == Init /\ [][Next]_vars

----------------------------------------------------------------------------
(* Claims about the RAG service. *)

\* the exceptions the stages of the service raise
Exceptions ==
    {"ValueError", "ParseError", "EmbedderError", "StoreError", "AttributeError",
     "ClientError", "APIError"}

\* the call of answer_question reached the retriever and the retriever answered
Retrieved == last.op = "answer" /\ last.fault \notin {"embed", "retrieve"}

\* C1: whatever was indexed and deleted before, the retrieval of
\* answer_question(user_id = u, selected_document_ids = S) gives only stored
\* entries of user u and of documents in S; the entries that match are all
\* given when they are at most top_k, and no entry of another user is.
C1_RetrievalFiltered ==
    Retrieved =>
        LET matching == {e \in store :
                            e.user_id = last.user_id /\ e.document_id \in last.selected}
        IN  /\ last.retrieved \subseteq matching
            /\ Cardinality(matching) <= TopK => last.retrieved = matching

\* user u asks about a document that another user indexed too, and gets
\* its own entries of it
C1_Witness ==
    /\ Retrieved
    /\ last.retrieved # {}
    /\ \E e \in last.retrieved, o \in store :
            o.document_id = e.document_id /\ o.user_id # e.user_id

\* C2: when the store does not fail, delete_document_embeddings(d, u) removes
\* every entry of document d and user u, and leaves every other entry.
C2_DeleteExact ==
    (last.op = "delete" /\ last.fault = "none") =>
        store = {e \in last.before :
                    ~(e.document_id = last.document_id /\ e.user_id = last.user_id)}

\* several entries of (d, u) deleted while entries of the same document of
\* another user and of another document of the same user stay
C2_Witness ==
    /\ last.op = "delete" /\ last.fault = "none"
    /\ Cardinality(last.before \ store) >= 2
    /\ \E e \in store : e.document_id = last.document_id /\ e.user_id # last.user_id
    /\ \E e \in store : e.document_id # last.document_id /\ e.user_id = last.user_id

\* the strings answer_question returns
AnswerStrings ==
    {<<MsgNoInfo>>, <<MsgNoKey>>, <<MsgNoResponse>>}
    \cup {<<MsgErrorPrefix, e>> : e \in Exceptions}
    \cup {<<r>> : r \in Responses \ {PyNone, ""}}

\* C3: answer_question never raises: whatever stage fails, it returns one of
\* its messages or the model's text.
C3_AnswerNeverRaises ==
    last.op = "answer" => (last.kind = "return" /\ last.value \in AnswerStrings)

\* the retrieval fails and the call returns the error message
C3_Witness ==
    /\ last.op = "answer"
    /\ last.fault = "retrieve"
    /\ last.value = <<MsgErrorPrefix, "StoreError">>

\* the entries of document d indexed for user u
IndexedEntries(d, u) ==
    {HaystackDocument(d, u, i - 1) : i \in 1..Len(DocChunks[d])}

\* C4: index_document never raises: it returns False when a stage fails, and
\* True only when no stage failed and every chunk of the document is in the
\* store.
C4_IndexNeverRaises ==
    last.op = "index" =>
        /\ last.kind = "return"
        /\ last.value \in BOOLEAN
        /\ last.fault # "none" => last.value = FALSE
        /\ last.value = TRUE =>
                /\ last.fault = "none"
                /\ IndexedEntries(last.document_id, last.user_id) # {}
                /\ IndexedEntries(last.document_id, last.user_id) \subseteq store

\* the write of a batch of two chunks fails after the first: False is
\* returned
C4_Witness ==
    /\ last.op = "index"
    /\ last.fault = "write"
    /\ last.value = FALSE
    /\ store # last.before
    /\ ~(IndexedEntries(last.document_id, last.user_id) \subseteq store)

\* C8: when the retrieval gives no entry, answer_question returns the
\* no-relevant-information message and does not call the model, whatever the
\* key and the chat history.
C8_EmptyRetrieval ==
    (Retrieved /\ last.retrieved = {}) =>
        (last.kind = "return" /\ last.value = <<MsgNoInfo>> /\ ~last.llm_called)

\* no entry matches although the store holds entries, with no key
\* configured and a chat history given
C8_Witness ==
    /\ Retrieved /\ last.retrieved = {}
    /\ store # {}
    /\ last.selected # {}
    /\ last.api_key = PlaceholderKey
    /\ last.history # <<>>
    /\ last.value = <<MsgNoInfo>>

\* C9: when the key is None, empty or the placeholder and the retrieval gave
\* an entry, answer_question returns the configuration message, which is not
\* the generic error message, and does not call the model.
C9_KeyNotConfigured ==
    (/\ Retrieved
     /\ last.retrieved # {}
     /\ last.fault # "settings"
     /\ last.api_key \in {PyNone, "", PlaceholderKey}) =>
        /\ last.kind = "return"
        /\ last.value = <<MsgNoKey>>
        /\ last.value[1] # MsgErrorPrefix
        /\ ~last.llm_called

\* entries retrieved with the placeholder key configured
C9_Witness ==
    /\ Retrieved
    /\ last.retrieved # {}
    /\ last.fault = "none"
    /\ last.api_key = PlaceholderKey
    /\ last.value = <<MsgNoKey>>

\* C12: index_document fails fast on a document without usable text: when
\* the parsed text gives no chunk (it is empty or blank) the call returns
\* False at the content check and leaves the store as it was; and when the
\* call gets to the write, the chunk list is the document's and is not empty.
C12_EmptyFailsFast ==
    last.op = "index" =>
        /\ (last.stage \notin {"file", "parse"} /\ DocChunks[last.document_id] = <<>>) =>
                /\ last.stage = "empty"
                /\ last.value = FALSE
                /\ store = last.before
        /\ last.stage \in {"write", "done"} =>
                /\ last.chunks = Len(DocChunks[last.document_id])
                /\ last.chunks > 0

\* the blank document is parsed without failure and refused, with entries
\* of other documents in the store
C12_Witness ==
    /\ last.op = "index"
    /\ last.fault = "none"
    /\ last.stage = "empty"
    /\ FileText(last.document_id) # <<>>
    /\ last.value = FALSE
    /\ store # {}
    /\ store = last.before

\* C13 (as claimed): deletion is all or nothing: after
\* delete_document_embeddings(d, u), failed or not, the store holds either
\* every entry of (d, u) it held before the call or none of them.
C13_DeleteAllOrNothing ==
    last.op = "delete" =>
        LET entries(st) == {e \in st : e.document_id = last.document_id
                                        /\ e.user_id = last.user_id}
        IN  entries(store) = entries(last.before) \/ entries(store) = {}

----------------------------------------------------------------------------
(* ChatMessage's history and ChatAPIView.post *)

\* the messages of q that are the user's and not older than cutoff_time,
\* in q's order
RECURSIVE SelectUserSince(_, _, _)
SelectUserSince(q, user, cutoff_time) ==
    IF q = <<>> THEN <<>>
    ELSE LET rest == SelectUserSince(Tail(q), user, cutoff_time)
         IN  IF Head(q).user = user /\ Head(q).created_at >= cutoff_time
             THEN <<Head(q)>> \o rest
             ELSE rest

\* ChatMessage.get_recent_history: the user's messages created at or after
\* now - hours, ordered by created_at (the table is in that order)
get_recent_history(msgs, user, hours, clock) ==
    SelectUserSince(msgs, user, clock - hours)

\* queryset[:max_messages]
Limit(q, n) == SubSeq(q, 1, Min(n, Len(q)))

\* ChatMessage.get_history_for_context
get_history_for_context(msgs, user, hours, max_messages, clock) ==
    LET kept == Limit(get_recent_history(msgs, user, hours, clock), max_messages)
    IN  [i \in 1..Len(kept) |-> [role |-> kept[i].role, content |-> kept[i].content]]

\* ChatMessage.objects.create(user, role, content) at the clock's time
ChatMessage(user, role, body, clock) ==
    [user |-> user, role |-> role, content |-> body, created_at |-> clock]

\* the message texts of requests: none, a blank one, and one to strip
Questions == {<<>>, <<" ">>, <<"h", "i", " ">>}

\* what answer_question meets when the view calls it
ChatEnv == [fault |-> "none", api_key |-> "AIza-key", response |-> "The answer."]

\* the bodies of requests: not JSON, a JSON object whose message is null,
\* and a JSON object holding a message string and a list of document ids
Bodies == {"malformed", "null", "object"}

\* (mutant) the documents of the user, soft-deleted ones too
get_active_for_user_AnyState(docs, user) ==
    {d \in docs : d.user = user}

\* Document.get_active_for_user
get_active_for_user(docs, user) ==
    {d \in docs : d.user = user /\ ~d.is_deleted}

\* ChatAPIView.post for a request of user with the given body; message and
\* document_ids are what a JSON object holds.  json.loads raises
\* JSONDecodeError on a malformed body (status 400), and .strip() of a null
\* message raises AttributeError (status 500).
ChatPost(user, body, message, document_ids) ==
    /\ kpc = "idle"
    /\ Len(messages) + 2 <= MaxMsgs
    /\ LET question == strip(message)
           valid_doc_ids ==
               {d.id : d \in {a \in get_active_for_user(documents, user) :
                                    a.id \in document_ids}}
           saved == Append(messages, ChatMessage(user, "user", question, now))
           history == get_history_for_context(saved, user, HistoryHours,
                                              HistoryMaxMessages, now)
           reject(status) ==
               [NoRequest EXCEPT !.status = status, !.user = user, !.body = body,
                   !.question = IF body = "object" THEN question ELSE <<>>,
                   !.requested = IF body = "object" THEN document_ids ELSE {}]
       IN  IF body = "malformed"
           THEN /\ chat' = reject(400)
                /\ UNCHANGED messages
           ELSE IF body = "null"
           THEN /\ chat' = reject(500)
                /\ UNCHANGED messages
           ELSE IF question = <<>> \/ document_ids = {} \/ valid_doc_ids = {}
           THEN /\ chat' = reject(400)
                /\ UNCHANGED messages
           ELSE \E docs \in Retrievals(store, user, valid_doc_ids, TopK) :
                LET answer == answer_question(docs, history, ChatEnv).out.value
                IN  /\ messages' = Append(saved, ChatMessage(user, "assistant", answer, now))
                    /\ chat' = [status |-> 200, user |-> user, body |-> body,
                                question |-> question,
                                requested |-> document_ids,
                                document_ids |-> valid_doc_ids,
                                history |-> history, rag_called |-> TRUE,
                                answer |-> answer]
    /\ kpc' = "responded"
    /\ UNCHANGED <<documents, now>>
    /\ UNCHANGED <<chunkVars, ragVars, newVars>>

\* ClearHistoryView.post
ClearHistory(user) ==
    /\ kpc = "idle"
    /\ messages # <<>>
    /\ messages' = SelectSeq(messages, LAMBDA m : m.user # user)
    /\ UNCHANGED <<documents, now, chat, kpc>>
    /\ UNCHANGED <<chunkVars, ragVars, newVars>>

\* the client takes the response
TakeResponse ==
    /\ kpc = "responded"
    /\ kpc' = "idle"
    /\ chat' = NoRequest
    /\ UNCHANGED <<documents, messages, now>>
    /\ UNCHANGED <<chunkVars, ragVars, newVars>>

\* time passes: a little more than half the history window
Tick ==
    /\ kpc = "idle"
    /\ now + HistoryHours \div 2 + 1 <= MaxClock
    /\ now' = now + HistoryHours \div 2 + 1
    /\ UNCHANGED <<documents, messages, chat, kpc>>
    /\ UNCHANGED <<chunkVars, ragVars, newVars>>

ChatNext ==
    \/ \E u \in Users, b \in Bodies, q \in Questions, ids \in SUBSET DocIds :
            ChatPost(u, b, q, ids)
    \/ \E u \in Users : ClearHistory(u)
    \/ TakeResponse
    \/ Tick

ChatSpec == Init /\ [][ChatNext]_vars

\* C6 (as claimed): the history ChatAPIView gives answer_question is the
\* user's most recent 10 messages of the 24-hour window, oldest first; with
\* more than 10 in the window the oldest are left out.
C6_MostRecentHistory ==
    chat.status = 200 =>
        LET \* the table when the history was read: without the answer
            saved == SubSeq(messages, 1, Len(messages) - 1)
            recent == SelectSeq(saved, LAMBDA m :
                        m.user = chat.user /\ m.created_at >= now - HistoryHours)
            n == Len(recent)
            latest == SubSeq(recent, Max(1, n - HistoryMaxMessages + 1), n)
        IN  chat.history =
                [i \in 1..Len(latest) |->
                    [role |-> latest[i].role, content |-> latest[i].content]]

\* C14: ChatAPIView.post calls answer_question only with a question that is
\* stripped and not empty and with document ids that are not empty, are among
\* those requested, and each belong to the requesting user and are not
\* soft-deleted; and a request whose question is empty, that selects no id,
\* or none of whose ids is valid is answered 400, with no message stored and
\* answer_question not called.
C14_ValidatedRequest ==
    [][(kpc = "idle" /\ kpc' = "responded") =>
        /\ chat'.rag_called =>
            /\ chat'.question # <<>>
            /\ strip(chat'.question) = chat'.question
            /\ chat'.document_ids # {}
            /\ chat'.document_ids \subseteq chat'.requested
            /\ \A d \in chat'.document_ids :
                \E r \in documents : r.id = d /\ r.user = chat'.user /\ ~r.is_deleted
        /\ (/\ chat'.body = "object"
            /\ \/ chat'.question = <<>>
               \/ chat'.requested = {}
               \/ ~\E r \in documents : /\ r.id \in chat'.requested
                                        /\ r.user = chat'.user
                                        /\ ~r.is_deleted) =>
            /\ chat'.status = 400
            /\ ~chat'.rag_called
            /\ messages' = messages]_vars

\* a request with a question, selecting only documents of another user or
\* soft-deleted ones, is refused while the table holds earlier messages
C14_Witness ==
    /\ chat.status = 400
    /\ chat.body = "object"
    /\ chat.question # <<>>
    /\ chat.requested # {}
    /\ \E r \in documents : r.id \in chat.requested /\ r.user = chat.user /\ r.is_deleted
    /\ messages # <<>>

----------------------------------------------------------------------------
(* The document views: upload with indexing, and soft delete. *)

\* DocumentUploadView.post for a request of user with one file.  The file
\* is the one the next Document row stands for (its name and text are
\* DocName and FileText of the row's id); a file of an unsupported type or
\* over 10MB is refused before a row is made.  The row is saved, the
\* document indexed, and is_indexed set when indexing succeeded.
DocumentUpload(user, tooLarge, fault, written) ==
    /\ rpc = "idle"
    /\ Cardinality(documents) < MaxDoc
    /\ LET d == Cardinality(documents) + 1
           r == index_document(store, d, user, fault, written)
           call == [NoCall EXCEPT !.op = "upload", !.user_id = user,
                       !.document_id = d, !.fault = fault, !.before = store]
       IN  IF DocExtension(d) \notin {"pdf", "txt", "docx"} \/ tooLarge
           THEN /\ last' = [call EXCEPT !.value = "refused", !.fault = "none"]
                /\ UNCHANGED <<documents, store>>
           ELSE /\ documents' = documents \cup
                        {[id |-> d, user |-> user, is_deleted |-> FALSE,
                          is_indexed |-> r.out.value]}
                /\ store' = r.store
                /\ last' = [call EXCEPT !.value = r.out.value, !.stage = r.stage,
                                        !.chunks = r.chunks]
    /\ rpc' = "returned"
    /\ UNCHANGED <<messages, now, chat, kpc>>
    /\ UNCHANGED <<chunkVars, newVars>>

\* DocumentDeleteView.post for document pk and the requesting user:
\* get_object_or_404 gives the user's row, deleted or not (404 without
\* one); the row is marked deleted and saved, and then the embeddings are
\* deleted, whose failure delete_document_embeddings does not pass on.
DocumentDelete(user, pk, fault, gone) ==
    /\ rpc = "idle"
    /\ LET found == {row \in documents : row.id = pk /\ row.user = user}
           r == delete_document_embeddings(store, pk, user, fault, gone)
           call == [NoCall EXCEPT !.op = "soft_delete", !.user_id = user,
                       !.document_id = pk, !.before = store]
       IN  IF found = {}
           THEN /\ last' = [call EXCEPT !.value = "404"]
                /\ UNCHANGED <<documents, store>>
           ELSE /\ documents' = (documents \ found) \cup
                        {[row EXCEPT !.is_deleted = TRUE] : row \in found}
                /\ store' = r.store
                /\ last' = [call EXCEPT !.value = "redirect", !.fault = fault]
    /\ rpc' = "returned"
    /\ UNCHANGED <<messages, now, chat, kpc>>
    /\ UNCHANGED <<chunkVars, newVars>>

\* no document uploaded yet
DocInit ==
    /\ ChunkIdle
    /\ RagIdle
    /\ Constructed
    /\ documents = {}
    /\ messages = <<>>
    /\ now = 0
    /\ chat = NoRequest
    /\ kpc = "idle"

DocNext ==
    \/ \E u \in Users, big \in BOOLEAN, f \in IndexFaults, n \in 0..1 :
            DocumentUpload(u, big, f, n)
    \/ \E u \in Users, d \in DocIds, f \in DeleteFaults :
        \E gone \in SUBSET {e \in store : e.document_id = d} :
            DocumentDelete(u, d, f, gone)
    \/ TakeResult

DocSpec == DocInit /\ [][DocNext]_vars

\* C16 (as claimed): once DocumentDeleteView.post has completed for a
\* document (its row is marked is_deleted), the store holds no entry of that
\* document and its user; and the soft delete completes, with the row
\* marked and the redirect given, also when the deletion of the embeddings
\* fails.
C16_SoftDeleteRemovesEntries ==
    /\ \A row \in documents :
            row.is_deleted =>
                ~\E e \in store : e.document_id = row.id /\ e.user_id = row.user
    /\ (last.op = "soft_delete" /\ last.value # "404") =>
            /\ last.value = "redirect"
            /\ \E row \in documents :
                    row.id = last.document_id /\ row.user = last.user_id /\ row.is_deleted

----------------------------------------------------------------------------
(* The chunker's loop, one iteration per step. *)

ChunkInit ==
    /\ RagIdle
    /\ Constructed
    /\ ChatIdle
    /\ text \in Texts
    /\ chunk_size \in 1..MaxChunk
    /\ chunk_overlap \in 0..(chunk_size - 1)
    /\ start = 0
    /\ chunks = <<>>
    /\ iterations = 0
    /\ cpc = "entry"

\* if not text: return []; otherwise chunks = [], start = 0 and into the loop
ChunkEnter ==
    /\ cpc = "entry"
    /\ cpc' = IF text = <<>> THEN "returned" ELSE "loop"
    /\ UNCHANGED <<text, chunk_size, chunk_overlap, start, chunks, iterations>>
    /\ UNCHANGED <<ragVars, newVars, chatVars>>

\* one iteration of the while loop
ChunkIterate ==
    /\ cpc = "loop"
    /\ start < Len(text)
    /\ iterations < MaxIter
    /\ LET end == ChunkEnd(text, start, chunk_size)
       IN  /\ chunks' = Appended(chunks, text, start, end)
           /\ start' = NextStart(end, chunk_overlap)
    /\ iterations' = iterations + 1
    /\ UNCHANGED <<text, chunk_size, chunk_overlap, cpc>>
    /\ UNCHANGED <<ragVars, newVars, chatVars>>

\* the loop condition fails: return chunks
ChunkReturn ==
    /\ cpc = "loop"
    /\ ~(start < Len(text))
    /\ cpc' = "returned"
    /\ UNCHANGED <<text, chunk_size, chunk_overlap, start, chunks, iterations>>
    /\ UNCHANGED <<ragVars, newVars, chatVars>>

ChunkNext == ChunkEnter \/ ChunkIterate \/ ChunkReturn

ChunkSpec == ChunkInit /\ [][ChunkNext]_vars

----------------------------------------------------------------------------
(* Claims about the chunker. *)

\* C5 (as claimed): on every iteration of the while loop the window start
\* strictly increases, for every text and every chunk_size > chunk_overlap >= 0.
C5_StartStrictlyIncreases == [][iterations' # iterations => start' > start]_vars

\* the overlaps for which every iteration advances the start: a cut moved
\* back to a mark ends beyond size \div 2 + 2 characters
StartAdvances(size, overlap) == overlap < size \div 2 + 3

NoWhitespace(t) == \A i \in 1..Len(t) : t[i] \notin Whitespace

\* C10 (as claimed): for a fixed text and overlap, a larger chunk_size never
\* gives more chunks.  Stated for the sizes whose loop is sure to end, so
\* that a violation does not rest on a loop that never ends.
C10_CountMonotone ==
    cpc = "returned" =>
        \A b \in (chunk_size + 1)..MaxChunk :
            StartAdvances(b, chunk_overlap) =>
                Len(chunk(text, b, chunk_overlap)) <= Len(chunks)

\* C10 (amended): for a text without whitespace and a fixed overlap, a larger
\* chunk_size never gives more chunks, and the loop ends for every size.
C10_CountMonotoneNoWhitespace ==
    /\ (cpc = "loop" /\ NoWhitespace(text)) => iterations <= Len(text)
    /\ (cpc = "returned" /\ NoWhitespace(text)) =>
            \A b \in (chunk_size + 1)..MaxChunk :
                Len(chunk(text, b, chunk_overlap)) <= Len(chunks)

\* a text without whitespace, chunked into several chunks, that a larger
\* chunk_size chunks into fewer
C10_Witness ==
    /\ cpc = "returned"
    /\ NoWhitespace(text)
    /\ Len(chunks) >= 3
    /\ chunk_overlap > 0
    /\ \E b \in (chunk_size + 1)..MaxChunk :
            /\ Len(chunk(text, b, chunk_overlap)) < Len(chunks)
            /\ Len(chunk(text, b, chunk_overlap)) >= 2

\* C11 (as claimed): chunk gives the empty sequence for the empty text, and
\* for a text that is not blank and fits in one window (its length is at
\* most chunk_size) exactly one chunk, the stripped text.
C11_SingleWindow ==
    cpc = "returned" =>
        /\ text = <<>> => chunks = <<>>
        /\ (strip(text) # <<>> /\ Len(text) <= chunk_size) => chunks = <<strip(text)>>

\* C15 (as claimed): in an iteration whose window does not reach the end of
\* the text, if a sentence-end mark has its last occurrence in the window at
\* or after the window's midpoint (offset >= chunk_size \div 2), the chunk is
\* cut right after such a mark and not at the chunk_size boundary.
C15_CutAtOrAfterMidpoint ==
    [][(iterations' # iterations /\ start + chunk_size < Len(text)) =>
        LET window == Slice(text, start, start + chunk_size)
            end == start' + chunk_overlap
            marks == {k \in 1..Len(Puncts) :
                        rfind(window, Puncts[k]) >= chunk_size \div 2}
        IN  marks # {} =>
                \E k \in marks : end = start + rfind(window, Puncts[k]) + Len(Puncts[k])]_vars

====
